---- MODULE Spec2Model ----
(***************************************************************************)
(* Model of GPy/likelihoods/bernoulli.py: the Bernoulli likelihood.        *)
(*                                                                         *)
(* Numbers.  A link value is the rational k/D, written as its numerator k  *)
(* in 0..D, so that 1 - link_f is D - k.  np.log(k/D) is the symbolic      *)
(* term [log |-> k] ([log |-> 0] is -inf), np.sum of such terms is their   *)
(* sequence in array order, and np.exp of a sum is the product of the      *)
(* arguments, the rational [num, den].  A quotient is [num, den] with      *)
(* den = 0 for a division by zero (numpy's +-inf).                         *)
(*                                                                         *)
(* Arrays.  [kind, shape, data]: kind "nd" is a numpy ndarray with its     *)
(* shape tuple and its elements in row-major order (what flatten() gives); *)
(* kind "py" is a plain Python number (shape <<>>, one element).           *)
(***************************************************************************)
EXTENDS Integers, Sequences, FiniteSets, TLC

VARIABLES
    gp_link,      \* self.gp_link: the link function object held by the likelihood
    log_concave,  \* self.log_concave
    errstate,     \* numpy's process-wide setting for divide-by-zero (np.seterr)
    errstate0,    \* the setting that was in force when the last call started
    link_f,       \* argument link_f of the evaluators
    y,            \* argument y of the evaluators, Y of _preprocess_values
    args,         \* arguments of the pending call of the scalar operations
    op,           \* the last method called ("none" before any call)
    result        \* what that call returned or raised

vars == <<gp_link, log_concave, errstate, errstate0, link_f, y, args, op, result>>

----------------------------------------------------------------------------
(* Bounds of the model *)

\* most elements an array holds
MaxElems == 2
\* link values are the multiples of 1/D in [0, 1]
D == 2
\* cavity precisions tau_i are 1..MaxTau
MaxTau == 2
\* cavity means v_i, latent values and predictive means are -MaxAbs..MaxAbs
MaxAbs == 1

\* label values offered to the methods: the two valid ones, the remapped -1
\* and one more invalid value
Labels == {-1, 0, 1, 2}
LinkValues == 0..D
Latents == (0 - MaxAbs)..MaxAbs

----------------------------------------------------------------------------
(* Arrays *)

RECURSIVE Prod(_)
Prod(s) == IF s = <<>> THEN 1 ELSE Head(s) * Prod(Tail(s))

\* ndarray.size
Size(a) == Prod(a.shape)

Shapes ==
    {<<>>} \cup {<<n>> : n \in 1..MaxElems}
           \cup {<<r, c>> : r \in 1..MaxElems, c \in 1..MaxElems}

NdArrays(V) ==
    UNION {{[kind |-> "nd", shape |-> s, data |-> d] : d \in [1..Prod(s) -> V]} :
              s \in {t \in Shapes : Prod(t) <= MaxElems}}

PyScalars(V) == {[kind |-> "py", shape |-> <<>>, data |-> <<v>>] : v \in V}

\* np.atleast_1d(x).shape: a Python number and a 0-d array become shape (1,)
atleast_1d_shape(a) == IF a.shape = <<>> THEN <<1>> ELSE a.shape

\* assert np.atleast_1d(link_f).shape == np.atleast_1d(y).shape
ShapesAgree_sizes(f, yy) == Prod(f.shape) = Prod(yy.shape)
ShapesAgree(f, yy) == atleast_1d_shape(f) = atleast_1d_shape(yy)

\* shape of an elementwise result of two operands (numpy broadcasting, for
\* the operand pairs the assertion lets through)
Broadcast(s, t) == IF Prod(s) >= Prod(t) /\ s # <<>> THEN s ELSE t

\* element i of an operand broadcast to n elements
Elem(a, i) == IF i <= Len(a.data) THEN a.data[i] ELSE a.data[1]

Max(m, n) == IF m >= n THEN m ELSE n

\* what a call produced
Val(v)     == [kind |-> "value", value |-> v, warned |-> FALSE]
ValWarn(v) == [kind |-> "value", value |-> v, warned |-> TRUE]
Raise(e)   == [kind |-> "error", err |-> e]
RaiseMsg(e, m) == [kind |-> "error", err |-> e, msg |-> m]
NoResult   == [kind |-> "none"]

----------------------------------------------------------------------------
(* numpy arithmetic on link values *)

\* Python truthiness of a label, as np.where(y, ...) reads its condition
Truthy_onlyOne(v) == v = 1
Truthy(v) == v # 0

np_log(k) == [log |-> k]

\* np.sum of an array of log terms
np_sum(terms) == [sumlog |-> terms]

RECURSIVE ProdArgs(_)
ProdArgs(terms) ==
    IF terms = <<>> THEN 1 ELSE Head(terms).log * ProdArgs(Tail(terms))

RECURSIVE Pow(_, _)
Pow(b, n) == IF n = 0 THEN 1 ELSE b * Pow(b, n - 1)

\* np.exp of a sum of log terms: the product of their arguments
np_exp(s) == [num |-> ProdArgs(s.sumlog), den |-> Pow(D, Len(s.sumlog))]

\* np.seterr(divide=new): sets the field, returns the old settings
np_seterr(cur, new) == [old |-> cur, now |-> new]

----------------------------------------------------------------------------
(* _preprocess_values *)

\* Y.flatten() == v: a 1-D boolean mask with one entry per element
FlatMask(Y, v) == [i \in 1..Len(Y.data) |-> Y.data[i] = v]

MaskCount(mask) == Cardinality({i \in 1..Len(mask) : mask[i]})

\* Indexing Y with a 1-D boolean mask selects along axis 0.  A mask as long
\* as axis 0 selects the rows it marks.  A mask of another length is an
\* IndexError in numpy >= 1.13; older releases (legacy) read it as the
\* integer indices of its True entries, an IndexError when one of them is
\* past axis 0.  A 0-d array cannot be indexed by an array.
BoolIndexOk(Y, mask, legacy) ==
    /\ Y.shape # <<>>
    /\ \/ Len(mask) = Y.shape[1]
       \/ legacy /\ \A i \in 1..Len(mask) : mask[i] => i <= Y.shape[1]

RowLen(Y) == Size(Y) \div Y.shape[1]

\* Y[mask].size
BoolIndexSize(Y, mask) == MaskCount(mask) * RowLen(Y)

\* Y_prep[mask] = v
BoolIndexAssign(Y, mask, v) ==
    [Y EXCEPT !.data =
        [j \in 1..Len(Y.data) |->
            IF mask[((j - 1) \div RowLen(Y)) + 1] THEN v ELSE Y.data[j]]]

\* The method, under the indexing rule of the numpy it runs on.
preprocess_values(Y, legacy) ==
    IF Y.kind = "py" THEN Raise("AttributeError")            \* Y.copy()
    ELSE
    LET Y_prep == Y                                          \* a copy of Y
        m1 == FlatMask(Y, 1)
        m0 == FlatMask(Y, 0)
    IN  IF ~BoolIndexOk(Y, m1, legacy) \/ ~BoolIndexOk(Y, m0, legacy)
        THEN Raise("IndexError")
        ELSE IF BoolIndexSize(Y, m1) + BoolIndexSize(Y, m0) # Size(Y)
        THEN Raise("AssertionError")
        ELSE Val(BoolIndexAssign(Y_prep, m0, -1))

----------------------------------------------------------------------------
(* pdf_link, logpdf_link and the derivatives of logpdf_link *)

NElems(f, yy) == Max(Len(f.data), Len(yy.data))

\* np.where(y, link_f, 1.-link_f)
pdf_objective(f, yy) ==
    [i \in 1..NElems(f, yy) |->
        IF Truthy(Elem(yy, i)) THEN Elem(f, i) ELSE D - Elem(f, i)]

\* np.log of an array; a zero element is a divide-by-zero condition, which
\* numpy reports as the setting says ("warn": a RuntimeWarning, and the
\* element is -inf; "ignore": the element is -inf)
LogArray(a) == [i \in 1..Len(a) |-> np_log(a[i])]
DivideCondition(a) == \E i \in 1..Len(a) : a[i] = 0

pdf_link(f, yy, es) ==
    IF ~ShapesAgree(f, yy) THEN Raise("AssertionError")
    ELSE LET objective == pdf_objective(f, yy)
             v == np_exp(np_sum(LogArray(objective)))
         IN  IF es = "warn" /\ DivideCondition(objective)
             THEN ValWarn(v) ELSE Val(v)

\* np.where(y==1, np.log(link_f), np.log(1-link_f))
logpdf_objective_sameBranch(f, yy) ==
    [i \in 1..NElems(f, yy) |-> np_log(Elem(f, i))]
logpdf_objective(f, yy) ==
    [i \in 1..NElems(f, yy) |->
        IF Elem(yy, i) = 1 THEN np_log(Elem(f, i)) ELSE np_log(D - Elem(f, i))]

\* Each of the next four returns [ret, es]: the result and the divide
\* setting the call leaves behind.
logpdf_link(f, yy, es) ==
    IF ~ShapesAgree(f, yy) THEN [ret |-> Raise("AssertionError"), es |-> es]
    ELSE LET state == np_seterr(es, "ignore")
             objective == logpdf_objective(f, yy)
             restored == np_seterr(state.now, state.old)
         IN  [ret |-> Val(np_sum(objective)), es |-> restored.now]

Quot(n, d) == [num |-> n, den |-> d]

\* The branch of the n-th derivative for label 1, at link value k/D:
\* 1./link_f, -1./np.square(link_f), 2./(link_f**3)
LabelOne(n, k) ==
    CASE n = 1 -> Quot(D, k)
      [] n = 2 -> Quot(0 - D * D, k * k)
      [] n = 3 -> Quot(2 * Pow(D, 3), Pow(k, 3))

\* and for label 0:
\* -1./(1-link_f), -1./np.square(1.-link_f), -2./((1.-link_f)**3)
LabelZero(n, k) ==
    CASE n = 1 -> Quot(0 - D, D - k)
      [] n = 2 -> Quot(0 - D * D, (D - k) * (D - k))
      [] n = 3 -> Quot(0 - 2 * Pow(D, 3), Pow(D - k, 3))

\* Whether computing the two branches on a plain Python number k/D divides
\* by zero in Python itself (ZeroDivisionError).  np.where gets both
\* branches already computed, whatever the label.  np.square returns a
\* numpy float, so the second derivative divides in numpy and never raises.
PyDivisionByZero(n, k) ==
    CASE n = 1 -> k = 0 \/ D - k = 0
      [] n = 2 -> FALSE
      [] n = 3 -> k = 0 \/ D - k = 0

\* np.where(y, <label-1 branch>, <label-0 branch>)
WhereArray(f, yy, n) ==
    [kind  |-> "nd",
     shape |-> Broadcast(f.shape, yy.shape),
     data  |-> [i \in 1..NElems(f, yy) |->
                  IF Truthy(Elem(yy, i)) THEN LabelOne(n, Elem(f, i))
                                         ELSE LabelZero(n, Elem(f, i))]]

\* The body shared by the three derivatives: assert, np.seterr, np.where,
\* np.seterr, return.
Derivative(f, yy, es, n) ==
    IF ~ShapesAgree(f, yy) THEN [ret |-> Raise("AssertionError"), es |-> es]
    ELSE LET state == np_seterr(es, "ignore")
         IN  IF f.kind = "py" /\ PyDivisionByZero(n, f.data[1])
             THEN [ret |-> Raise("ZeroDivisionError"), es |-> state.now]
             ELSE [ret |-> Val(WhereArray(f, yy, n)),
                   es  |-> np_seterr(state.now, state.old).now]

dlogpdf_dlink(f, yy, es) == Derivative(f, yy, es, 1)

d2logpdf_dlink2(f, yy, es) == Derivative(f, yy, es, 2)

d3logpdf_dlink3(f, yy, es) == Derivative(f, yy, es, 3)

----------------------------------------------------------------------------
(* The likelihood object and the calls of the array methods *)

\* Probit and Heaviside, and one class standing for every other link
LinkClasses == {"Probit", "Heaviside", "Other"}

\* A link function object: its class, and whether the object has an
\* attribute __name__ (instances of ordinary classes have none).
LinkObjects == {[cls |-> c, has_name |-> b] : c \in LinkClasses, b \in BOOLEAN}

None == [cls |-> "None", has_name |-> FALSE]

\* Bernoulli.__init__
InitLink(arg) == IF arg = None THEN [cls |-> "Probit", has_name |-> FALSE] ELSE arg
InitLogConcave(link) == link.cls \in {"Heaviside", "Probit"}

NoArgs == [op |-> "none"]
NoArray == [kind |-> "py", shape |-> <<>>, data |-> <<0>>]

\* Bernoulli(arg)
Construct(arg) ==
    /\ gp_link = InitLink(arg)
    /\ log_concave = InitLogConcave(InitLink(arg))

\* The array methods never read self.gp_link: they are run on Bernoulli().
Init ==
    /\ Construct(None)
    /\ errstate = "warn"                   \* numpy's default for divide
    /\ errstate0 = "warn"
    /\ link_f \in NdArrays(LinkValues) \cup PyScalars(LinkValues)
    /\ y \in NdArrays(Labels) \cup PyScalars(Labels)
    /\ args = NoArgs
    /\ op = "none"
    /\ result = NoResult

Returned(name, r, es) ==
    /\ op' = name
    /\ result' = r
    /\ errstate0' = errstate
    /\ errstate' = es
    /\ UNCHANGED <<gp_link, log_concave, link_f, y, args>>

\* legacy: which boolean-mask indexing rule the installed numpy follows
Call_preprocess_values ==
    /\ args = NoArgs
    /\ \E legacy \in BOOLEAN :
           Returned("_preprocess_values", preprocess_values(y, legacy), errstate)

Call_pdf_link ==
    /\ args = NoArgs
    /\ Returned("pdf_link", pdf_link(link_f, y, errstate), errstate)

Call_logpdf_link ==
    /\ args = NoArgs
    /\ LET r == logpdf_link(link_f, y, errstate)
       IN  Returned("logpdf_link", r.ret, r.es)

Call_dlogpdf_dlink ==
    /\ args = NoArgs
    /\ LET r == dlogpdf_dlink(link_f, y, errstate)
       IN  Returned("dlogpdf_dlink", r.ret, r.es)

Call_d2logpdf_dlink2 ==
    /\ args = NoArgs
    /\ LET r == d2logpdf_dlink2(link_f, y, errstate)
       IN  Returned("d2logpdf_dlink2", r.ret, r.es)

Call_d3logpdf_dlink3 ==
    /\ args = NoArgs
    /\ LET r == d3logpdf_dlink3(link_f, y, errstate)
       IN  Returned("d3logpdf_dlink3", r.ret, r.es)

Next ==
    \/ Call_preprocess_values
    \/ Call_pdf_link
    \/ Call_logpdf_link
    \/ Call_dlogpdf_dlink
    \/ Call_d2logpdf_dlink2
    \/ Call_d3logpdf_dlink3

Spec == Init /\ [][Next]_vars

----------------------------------------------------------------------------
(* moments_match_ep, predictive_mean, predictive_variance, samples *)

\* the names bound at module level: the imports and the class
ModuleGlobals ==
    {"np", "std_norm_pdf", "std_norm_cdf", "link_functions", "Likelihood", "Bernoulli"}

BadObservation == "bad value for Bernouilli observation (0, 1)"
NoExactMoments == "Exact moment matching not available for link"

\* x / sqrt(d2), unevaluated
OverSqrt(x, d2) == [num |-> x, den2 |-> d2]

\* std_norm_cdf, std_norm_pdf and stats.norm.cdf, unevaluated
Apply(fn, x) == [fn |-> fn, at |-> x]

moments_match_ep(link, data_i, tau_i, v_i) ==
    IF data_i \notin {0, 1} THEN RaiseMsg("ValueError", BadObservation)
    ELSE
    LET sign == IF data_i = 1 THEN 1 ELSE -1
    IN  IF link.cls = "Probit" THEN
            LET z     == OverSqrt(sign * v_i, tau_i * tau_i + tau_i)
                Z_hat == Apply("std_norm_cdf", z)
                phi   == Apply("std_norm_pdf", z)
            IN  Val(<<Z_hat,
                      [mean |-> Quot(v_i, tau_i), sign |-> sign, pdf |-> phi,
                       cdf |-> Z_hat, den2 |-> tau_i * tau_i + tau_i],
                      [var |-> Quot(1, tau_i), pdf |-> phi, cdf |-> Z_hat,
                       den |-> tau_i * tau_i + tau_i, z |-> z]>>)
        ELSE IF link.cls = "Heaviside" THEN
            LET a     == OverSqrt(sign * v_i, tau_i)
                Z_hat == Apply("std_norm_cdf", a)
                N     == Apply("std_norm_pdf", a)
            IN  Val(<<Z_hat,
                      [mean |-> Quot(v_i, tau_i), sign |-> sign, pdf |-> N,
                       cdf |-> Z_hat, den2 |-> tau_i],
                      [var |-> Quot(1, tau_i), pdf |-> N, cdf |-> Z_hat,
                       den |-> tau_i, z |-> a]>>)
        ELSE \* the message's argument self.gp_link.__name__ is read first
            IF link.has_name THEN RaiseMsg("ValueError", NoExactMoments)
            ELSE Raise("AttributeError")

\* stats.norm.cdf(...): the name stats is looked up before anything else
predictive_mean(link, mu, variance) ==
    IF link.cls \in {"Probit", "Heaviside"} THEN
        IF "stats" \notin ModuleGlobals THEN Raise("NameError")
        ELSE IF link.cls = "Probit"
             THEN Val(Apply("stats.norm.cdf", OverSqrt(mu, 1 + variance)))
             ELSE Val(Apply("stats.norm.cdf", OverSqrt(mu, variance)))
    ELSE Raise("NotImplementedError")

predictive_variance_raises(link, mu, variance, pred_mean) ==
    IF link.cls = "Heaviside" THEN Val("0.") ELSE Raise("NotImplementedError")
predictive_variance(link, mu, variance, pred_mean) ==
    IF link.cls = "Heaviside" THEN Val("0.") ELSE Val("nan")

\* gp_link.transf(f), as far as a draw depends on it: the probability is 0,
\* is 1, or lies strictly between
transf(link, f) ==
    IF link.cls = "Heaviside" THEN (IF f > 0 THEN "1" ELSE "0") ELSE "(0,1)"

\* np.ones_like(gp, dtype=int)
ones_like(flat) == [i \in 1..Len(flat) |-> 1]

\* the outcomes of np.random.binomial(n, p) for one element
Binomial(n, p) == IF p = "0" THEN {0} ELSE IF p = "1" THEN {n} ELSE 0..n

\* the arrays np.random.binomial(ns, gp_link.transf(gp)) can return
Draws(link, flat) ==
    LET ns == ones_like(flat)
    IN  {d \in [1..Len(flat) -> 0..1] :
            \A i \in 1..Len(flat) : d[i] \in Binomial(ns[i], transf(link, flat[i]))}

samples_flat(link, gp, Ysim) ==
    IF gp.kind = "py" THEN Raise("AttributeError")
    ELSE Val([kind |-> "nd", shape |-> <<Len(gp.data)>>, data |-> Ysim])
\* samples, when the random draw is Ysim
samples(link, gp, Ysim) ==
    IF gp.kind = "py" THEN Raise("AttributeError")           \* gp.shape
    ELSE LET orig_shape == gp.shape
         IN  Val([kind |-> "nd", shape |-> orig_shape, data |-> Ysim])

EPArgs ==
    {[op |-> "moments_match_ep", data_i |-> d, tau_i |-> t, v_i |-> v] :
        d \in Labels, t \in 1..MaxTau, v \in Latents}
MeanArgs ==
    {[op |-> "predictive_mean", mu |-> m, variance |-> v] :
        m \in Latents, v \in 0..MaxAbs}
VarianceArgs ==
    {[op |-> "predictive_variance", mu |-> m, variance |-> v, pred_mean |-> "mean"] :
        m \in Latents, v \in 0..MaxAbs}
SamplesArgs ==
    {[op |-> "samples", gp |-> g] : g \in NdArrays(Latents) \cup PyScalars(Latents)}

\* A likelihood built on any link (or on none: Probit), and one call to make.
InitLink2 ==
    /\ \E arg \in LinkObjects \cup {None} : Construct(arg)
    /\ errstate = "warn"
    /\ errstate0 = "warn"
    /\ link_f = NoArray
    /\ y = NoArray
    /\ args \in EPArgs \cup MeanArgs \cup VarianceArgs \cup SamplesArgs
    /\ op = "none"
    /\ result = NoResult

Returned2(r) ==
    /\ op' = args.op
    /\ result' = r
    /\ UNCHANGED <<gp_link, log_concave, errstate, errstate0, link_f, y, args>>

Call_moments_match_ep ==
    /\ args.op = "moments_match_ep"
    /\ Returned2(moments_match_ep(gp_link, args.data_i, args.tau_i, args.v_i))

Call_predictive_mean ==
    /\ args.op = "predictive_mean"
    /\ Returned2(predictive_mean(gp_link, args.mu, args.variance))

Call_predictive_variance ==
    /\ args.op = "predictive_variance"
    /\ Returned2(predictive_variance(gp_link, args.mu, args.variance, args.pred_mean))

Call_samples ==
    /\ args.op = "samples"
    /\ \E Ysim \in Draws(gp_link, args.gp.data) :
           Returned2(samples(gp_link, args.gp, Ysim))

NextLink ==
    \/ Call_moments_match_ep
    \/ Call_predictive_mean
    \/ Call_predictive_variance
    \/ Call_samples

SpecLink == InitLink2 /\ [][NextLink]_vars

----------------------------------------------------------------------------
(* Claims about the array methods, checked under Spec *)

Evaluators ==
    {"pdf_link", "logpdf_link", "dlogpdf_dlink", "d2logpdf_dlink2", "d3logpdf_dlink3"}

Suppressing == Evaluators \ {"pdf_link"}

\* C1: for link_f and y of the same shape with every label in {0,1},
\* pdf_link returns exp of what logpdf_link returns, and at every element
\* the factor pdf_link takes the log of is the one logpdf_link takes the log
\* of, over all the elements of the array.
C1_LikelihoodIsExpLogLikelihood ==
    (/\ op = "pdf_link"
     /\ link_f.shape = y.shape
     /\ \A i \in 1..Len(y.data) : y.data[i] \in {0, 1})
    => /\ result.kind = "value"
       /\ logpdf_link(link_f, y, errstate).ret.kind = "value"
       /\ result.value = np_exp(logpdf_link(link_f, y, errstate).ret.value)
       /\ Len(pdf_objective(link_f, y)) = Size(y)
       /\ LogArray(pdf_objective(link_f, y)) = logpdf_objective(link_f, y)

\* C1 witness: on labels (0, 1) and link values (1/D, 1) pdf_link has taken
\* both branches and returned (1 - 1/D) * 1.
C1_Witness ==
    /\ op = "pdf_link"
    /\ link_f.kind = "nd" /\ link_f.shape = <<2>> /\ link_f.data = <<1, D>>
    /\ y.kind = "nd" /\ y.shape = <<2>> /\ y.data = <<0, 1>>
    /\ result.kind = "value"
    /\ result.value = [num |-> (D - 1) * D, den |-> D * D]

\* C2: after a call of logpdf_link or of one of the three derivatives, the
\* divide setting is the one in force before the call, however the call
\* ended.
C2_ErrstateRestored ==
    op \in Suppressing => errstate = errstate0

\* C3 as claimed: whenever link_f and y differ in shape, an evaluator fails
\* with the shape error.
C3_AnyShapeDifferenceFails ==
    (op \in Evaluators /\ link_f.shape # y.shape)
    => (result.kind = "error" /\ result.err = "AssertionError")

\* C3 as amended: an evaluator fails with the AssertionError, and returns
\* nothing, exactly when the shapes differ after np.atleast_1d, which turns
\* a scalar and a 0-d array into shape (1,); so operands of different shape
\* get through only when each holds a single element.
C3_PromotedShapeDifferenceFails ==
    op \in Evaluators
    => /\ (atleast_1d_shape(link_f) # atleast_1d_shape(y))
            <=> (result.kind = "error" /\ result.err = "AssertionError")
       /\ (result.kind = "value" /\ link_f.shape # y.shape)
            => (Size(link_f) = 1 /\ Size(y) = 1)

\* C3 witness: a (1,2) against a (2,1) array, same element count, refused.
C3_Witness ==
    /\ op = "dlogpdf_dlink"
    /\ link_f.shape = <<1, 2>>
    /\ y.shape = <<2, 1>>
    /\ result = Raise("AssertionError")

\* C4: _preprocess_values fails with a ValueError whenever an element of
\* the array is neither 0 nor 1 (stated for arrays of one dimension or more).
C4_InvalidLabelIsValueError ==
    (/\ op = "_preprocess_values"
     /\ y.kind = "nd" /\ y.shape # <<>>
     /\ \E i \in 1..Len(y.data) : y.data[i] \notin {0, 1})
    => (result.kind = "error" /\ result.err = "ValueError")

\* C5: for an array of any shape with every element in {0,1},
\* _preprocess_values returns an array of the same shape with -1 for each 0
\* and 1 for each 1 (stated for arrays of one dimension or more).
C5_NormalizesAnyShape ==
    (/\ op = "_preprocess_values"
     /\ y.kind = "nd" /\ y.shape # <<>>
     /\ \A i \in 1..Len(y.data) : y.data[i] \in {0, 1})
    => /\ result.kind = "value"
       /\ result.value.shape = y.shape
       /\ result.value.data =
              [i \in 1..Len(y.data) |-> IF y.data[i] = 0 THEN -1 ELSE 1]

\* C10: pdf_link and the derivatives read a label as 1 wherever it is not
\* 0, logpdf_link wherever it equals 1: each returns what it returns on the
\* labels so rewritten to 0/1.  So on labels that _preprocess_values has
\* returned with elements in {-1,1}, pdf_link and the derivatives return
\* what they return on all-1 labels, and logpdf_link what it returns on the
\* labels before the remapping (each -1 read as 0).
C10_LabelReading ==
    LET nonzero(a) == [a EXCEPT !.data = [i \in 1..Len(a.data) |->
                                            IF a.data[i] # 0 THEN 1 ELSE 0]]
        equals1(a) == [a EXCEPT !.data = [i \in 1..Len(a.data) |->
                                            IF a.data[i] = 1 THEN 1 ELSE 0]]
        ones(a)    == [a EXCEPT !.data = [i \in 1..Len(a.data) |-> 1]]
    IN  /\ op = "pdf_link" => result = pdf_link(link_f, nonzero(y), errstate)
        /\ op = "logpdf_link" =>
              result = logpdf_link(link_f, equals1(y), errstate0).ret
        /\ op = "dlogpdf_dlink" =>
              result = dlogpdf_dlink(link_f, nonzero(y), errstate0).ret
        /\ op = "d2logpdf_dlink2" =>
              result = d2logpdf_dlink2(link_f, nonzero(y), errstate0).ret
        /\ op = "d3logpdf_dlink3" =>
              result = d3logpdf_dlink3(link_f, nonzero(y), errstate0).ret
        /\ (/\ op = "_preprocess_values"
            /\ result.kind = "value"
            /\ \A i \in 1..Len(result.value.data) :
                   result.value.data[i] \in {-1, 1})
           => LET yp == result.value
              IN  /\ pdf_link(link_f, yp, errstate)
                        = pdf_link(link_f, ones(yp), errstate)
                  /\ dlogpdf_dlink(link_f, yp, errstate)
                        = dlogpdf_dlink(link_f, ones(yp), errstate)
                  /\ d2logpdf_dlink2(link_f, yp, errstate)
                        = d2logpdf_dlink2(link_f, ones(yp), errstate)
                  /\ d3logpdf_dlink3(link_f, yp, errstate)
                        = d3logpdf_dlink3(link_f, ones(yp), errstate)
                  /\ logpdf_link(link_f, yp, errstate)
                        = logpdf_link(link_f, y, errstate)

\* C10 witness: labels (0, 1) came back as (-1, 1), and on them, with link
\* values (0, 1), pdf_link returns 0 while exp of logpdf_link is 1.
C10_Witness ==
    /\ op = "_preprocess_values"
    /\ y.shape = <<2>> /\ y.data = <<0, 1>>
    /\ result.kind = "value"
    /\ result.value.data = <<-1, 1>>
    /\ link_f.kind = "nd" /\ link_f.shape = <<2>> /\ link_f.data = <<0, D>>
    /\ pdf_link(link_f, result.value, errstate).value.num = 0
    /\ np_exp(logpdf_link(link_f, result.value, errstate).ret.value).num = D * D

----------------------------------------------------------------------------
(* Claims about the link-dependent methods, checked under SpecLink *)

\* C6: moments_match_ep returns a triple only for a label in {0,1} on a
\* Probit or Heaviside link; a label outside {0,1} fails with the
\* invalid-observation error whatever the link, and any other link fails
\* with the no-exact-moments error.
C6_MomentsErrors ==
    op = "moments_match_ep"
    => /\ result.kind = "value"
            => (args.data_i \in {0, 1} /\ gp_link.cls \in {"Probit", "Heaviside"})
       /\ args.data_i \notin {0, 1}
            => result = RaiseMsg("ValueError", BadObservation)
       /\ (args.data_i \in {0, 1} /\ gp_link.cls \notin {"Probit", "Heaviside"})
            => result = RaiseMsg("ValueError", NoExactMoments)

\* C7: predictive_mean returns a value whenever the link is Probit or
\* Heaviside, and fails, with NotImplementedError, only on another link.
C7_PredictiveMeanReturns ==
    op = "predictive_mean"
    => IF gp_link.cls \in {"Probit", "Heaviside"}
       THEN result.kind = "value"
       ELSE result = Raise("NotImplementedError")

\* C8: predictive_variance never raises: it returns 0 on a Heaviside link
\* and nan on any other, Probit included.
C8_PredictiveVariance ==
    op = "predictive_variance"
    => /\ result.kind = "value"
       /\ result.value = (IF gp_link.cls = "Heaviside" THEN "0." ELSE "nan")

\* C8 witness: on a Probit link the call has returned nan.
C8_Witness ==
    /\ op = "predictive_variance"
    /\ gp_link.cls = "Probit"
    /\ result = Val("nan")

\* C9: for a latent array of any shape and any outcome of the draws,
\* samples returns an array of that shape of 0s and 1s, one draw per
\* element, which is 0 where transf gives probability 0 and 1 where it
\* gives probability 1.
C9_SamplesShapeAndRange ==
    (op = "samples" /\ args.gp.kind = "nd")
    => /\ result.kind = "value"
       /\ result.value.shape = args.gp.shape
       /\ Len(result.value.data) = Size(args.gp)
       /\ \A i \in 1..Len(result.value.data) :
              /\ result.value.data[i] \in {0, 1}
              /\ transf(gp_link, args.gp.data[i]) = "0" => result.value.data[i] = 0
              /\ transf(gp_link, args.gp.data[i]) = "1" => result.value.data[i] = 1

\* C9 witness: a (1,2) latent array on a Probit link drew (0, 1).
C9_Witness ==
    /\ op = "samples"
    /\ gp_link.cls = "Probit"
    /\ args.gp.shape = <<1, 2>>
    /\ result.kind = "value"
    /\ result.value.shape = <<1, 2>>
    /\ result.value.data = <<0, 1>>

====
